---- MODULE Spec2Model ----
(***************************************************************************)
(* FineTuneMe web client: the upload form (FileUpload.tsx), the settings   *)
(* store (lib/storage), the job status poller (ProjectStatus) and the      *)
(* parts of the generation backend that the client depends on.             *)
(*                                                                         *)
(* The specifications share the variables below:                           *)
(*   SpecUpload   the upload form, its effects, provider loading, storage  *)
(*   SpecPoll     the status poller against a job record written per field *)
(*   SpecPollFair the same with the timer and the network making progress  *)
(*   SpecStep     getCurrentStep over every progress value                 *)
(*   SpecGen      generation calls: vision routing, retries, chunk order   *)
(*   SpecJobs     job submission and the workers running the jobs          *)
(*   SpecLaunch   start_app.bat                                            *)
(*   SpecStorage  the settings store: clear, clearSecrets, export, import  *)
(*   SpecLoadFair provider loading of the upload form, requests settling   *)
(*   SpecSettings the settings dialog: providers, hardware, retry          *)
(* Each specification leaves the other components at their initial value.  *)
(***************************************************************************)
EXTENDS Integers, Sequences, FiniteSets, TLC

VARIABLES
    \* ---- FileUpload component state (useState hooks) ----
    file, role, customPrompt, provider, apiKey, model, format,
    loading, error, providers, availableModels, loadingProviders, backendError,
    \* ---- browser localStorage and whether it can be used ----
    localStorage, storageAvailable,
    \* ---- loadProviders call in progress: position and its retryCount ----
    lpPc, lpRetry,
    lpRequests,    \* getProviders requests issued since the last loadProviders(0)
    userPicked,    \* the user has chosen a provider in the provider <select>
    \* ---- backend job record (Job Store) and its worker ----
    job, workerPc,
    \* ---- ProjectStatus component state ----
    project, psLoading, psError, showConfetti, datasetPreview,
    requests,      \* GET /projects/{id} calls in flight
    downloads,     \* GET /projects/{id}/download calls issued so far
    everCompleted, \* a snapshot with status completed has been recorded
    onlyCompleted, \* every response recorded so far had status completed
    \* ---- getCurrentStep ----
    stepProgress, currentStep,
    \* ---- provider generation call ----
    genBackend, genSelected, genChunks, genIndex, genCalls, genStatus,
    genAttempts,   \* attempts already made on the current chunk
    genPairs,      \* chunks whose pairs were appended, in order of appending
    genError,      \* the error the job recorded when it failed
    \* ---- Job Store with many jobs and the workers running them ----
    jobStore,      \* job id -> record, with the workers that wrote it
    jobRuns,       \* runs in progress: [worker, job]
    runsStarted,   \* background units of work started so far
    \* ---- start_app.bat ----
    batPc,         \* position in the script
    batErrorlevel, \* ERRORLEVEL of the command processor
    batExpanded,   \* the text %errorlevel% was replaced by in the installer block
    batInput,      \* what the script finds: the answer typed, exit codes, folders
    batVenv,       \* .venv\Scripts\activate.bat exists
    batMode,       \* FTM_DEPLOYMENT_MODE
    batEvents,     \* what the script has done and reported
    \* ---- the settings store used on its own (settings dialog) ----
    stoItems,      \* the items of localStorage
    stoAvail,      \* isAvailable()
    stoLast,       \* the last operation: its name, result, and whether getAll changed
    \* ---- SettingsModal component state ----
    isOpen, activeTab, backendOffline, hardwareStatus, hardwareError,
    smLoading,          \* its loading
    smLoadingProviders, \* its loadingProviders
    smProviders,        \* its providers: "empty" ({}), "backend" (the answer of
                        \* GET /providers) or "cloud" (the catch branch's three)
    backendUp,     \* the backend answers requests
    smCalls,       \* async calls of the dialog waiting for a response
    retryRun       \* the last retryConnection invocation and what it did

uploadVars == <<file, role, customPrompt, provider, apiKey, model, format,
                loading, error, providers, availableModels, loadingProviders,
                backendError, localStorage, storageAvailable, lpPc, lpRetry,
                lpRequests, userPicked>>
pollVars == <<job, workerPc, project, psLoading, psError, showConfetti,
              datasetPreview, requests, downloads, everCompleted, onlyCompleted>>
stepVars == <<stepProgress, currentStep>>
genVars == <<genBackend, genSelected, genChunks, genIndex, genCalls, genStatus,
             genAttempts, genPairs, genError>>
jobsVars == <<jobStore, jobRuns, runsStarted>>
batVars == <<batPc, batErrorlevel, batExpanded, batInput, batVenv, batMode, batEvents>>
stoVars == <<stoItems, stoAvail, stoLast>>
smVars == <<isOpen, activeTab, backendOffline, hardwareStatus, hardwareError,
            smLoading, smLoadingProviders, smProviders, backendUp, smCalls, retryRun>>
restVars == <<jobsVars, batVars, stoVars, smVars>>
vars == <<uploadVars, pollVars, stepVars, genVars, restVars>>

(***************************************************************************)
(* Settings store                                                          *)
(***************************************************************************)
STORAGE_KEYS ==
    [PROVIDER |-> "ftm_provider", API_KEY |-> "ftm_api_key",
     GROQ_API_KEY |-> "ftm_groq_api_key", OPENAI_API_KEY |-> "ftm_openai_api_key",
     ANTHROPIC_API_KEY |-> "ftm_anthropic_api_key", MODEL |-> "ftm_model",
     ROLE |-> "ftm_role", FORMAT |-> "ftm_format"]

StorageKeyNames == DOMAIN STORAGE_KEYS
StorageItems == {STORAGE_KEYS[k] : k \in StorageKeyNames}

DEFAULT_SETTINGS ==
    [provider |-> "ollama", apiKey |-> "", groqApiKey |-> "", openaiApiKey |-> "",
     anthropicApiKey |-> "", model |-> "", role |-> "teacher", format |-> "sharegpt"]

\* localStorage.getItem returns null for an item that was never stored
NullItem == "<null>"

EmptyStorage == [i \in StorageItems |-> NullItem]

\* String.prototype.toLowerCase on the names of STORAGE_KEYS
ToLowerCaseKey(key) ==
    CASE key = "PROVIDER" -> "provider"
      [] key = "API_KEY" -> "api_key"
      [] key = "GROQ_API_KEY" -> "groq_api_key"
      [] key = "OPENAI_API_KEY" -> "openai_api_key"
      [] key = "ANTHROPIC_API_KEY" -> "anthropic_api_key"
      [] key = "MODEL" -> "model"
      [] key = "ROLE" -> "role"
      [] key = "FORMAT" -> "format"

\* faulty variant: no default is looked up
DefaultFor_Blank(key) == ""

\* DEFAULT_SETTINGS[defaultKey] || '' : a missing property is undefined, hence ''
DefaultFor(key) ==
    LET defaultKey == ToLowerCaseKey(key)
    IN  IF defaultKey \in DOMAIN DEFAULT_SETTINGS THEN DEFAULT_SETTINGS[defaultKey] ELSE ""

\* FineTuneMeStorage.get
StorageGet(store, avail, key) ==
    IF ~avail THEN DefaultFor(key)
    ELSE IF store[STORAGE_KEYS[key]] # NullItem THEN store[STORAGE_KEYS[key]]
    ELSE DefaultFor(key)

\* FineTuneMeStorage.set
StorageSet(store, avail, key, value) ==
    IF ~avail THEN store ELSE [store EXCEPT ![STORAGE_KEYS[key]] = value]

\* a || b on strings
OrElse(a, b) == IF a # "" THEN a ELSE b

\* FineTuneMeStorage.getAll
StorageGetAll(store, avail) ==
    [provider |-> StorageGet(store, avail, "PROVIDER"),
     apiKey |-> StorageGet(store, avail, "API_KEY"),
     groqApiKey |-> OrElse(StorageGet(store, avail, "GROQ_API_KEY"),
                           StorageGet(store, avail, "API_KEY")),
     openaiApiKey |-> StorageGet(store, avail, "OPENAI_API_KEY"),
     anthropicApiKey |-> StorageGet(store, avail, "ANTHROPIC_API_KEY"),
     model |-> StorageGet(store, avail, "MODEL"),
     role |-> StorageGet(store, avail, "ROLE"),
     format |-> StorageGet(store, avail, "FORMAT")]

(***************************************************************************)
(* Upload form: constants                                                  *)
(***************************************************************************)
ROLE_OPTIONS == {"teacher", "strict_auditor", "technical_analyst", "researcher", "custom"}

SUPPORTED_FILE_TYPES ==
    {".pdf", ".docx", ".xlsx", ".xls", ".csv",
     ".html", ".htm", ".xml", ".txt", ".md", ".markdown",
     ".py", ".js", ".ts", ".jsx", ".tsx", ".java", ".c", ".cpp", ".cs",
     ".go", ".rs", ".php", ".rb", ".sql", ".json", ".yaml", ".yml",
     ".pptx", ".ppt", ".doc",
     ".png", ".jpg", ".jpeg", ".webp"}

\* 100 * 1024 * 1024, the size limit of handleFileChange
MaxFileBytes == 100 * 1024 * 1024

Scout == "meta-llama/llama-4-scout-17b-16e-instruct"
Llama33 == "llama-3.3-70b-versatile"
Llama31 == "llama-3.1-70b-versatile"

FALLBACK_PROVIDERS ==
    [ollama |-> [name |-> "Ollama", available |-> FALSE, requires_api_key |-> FALSE,
                 models |-> <<>>],
     groq |-> [name |-> "Groq", available |-> TRUE, requires_api_key |-> TRUE,
               models |-> <<Scout, Llama33, "llama-3.1-8b-instant", "mixtral-8x7b-32768">>],
     openai |-> [name |-> "OpenAI", available |-> TRUE, requires_api_key |-> TRUE,
                 models |-> <<"gpt-4o", "gpt-4o-mini", "gpt-4-turbo", "gpt-3.5-turbo">>],
     anthropic |-> [name |-> "Anthropic", available |-> TRUE, requires_api_key |-> TRUE,
                    models |-> <<"claude-3-5-sonnet-20241022", "claude-3-5-haiku-20241022",
                                 "claude-3-opus-20240229">>]]

\* useState<Record<string, Provider>>({}) : the catalog before any load
NoProviders == [p \in {} |-> TRUE]

\* useState<File | null>(null)
NoFile == [name |-> <<>>, size |-> 0]

ErrUnsupported == "Unsupported file type"
ErrTooLarge == "File size must not exceed 100MB"
ErrNoFile == "Please select a file"
ErrApiKey == "API key is required"
ErrNoModel == "Please select a model"
ErrUpload == "Upload failed. Please try again."

(***************************************************************************)
(* Upload form: what the user and the backend can supply                   *)
(***************************************************************************)
\* file names as the segments name.split('.') yields
Files ==
    {[name |-> <<"SCAN", "PDF">>, size |-> MaxFileBytes],
     [name |-> <<"SCAN", "PDF">>, size |-> MaxFileBytes + 1],
     [name |-> <<"legacy", "doc">>, size |-> 1],
     [name |-> <<"slides", "ppt">>, size |-> 1],
     [name |-> <<"setup", "exe">>, size |-> 1],
     [name |-> <<"setup", "exe">>, size |-> MaxFileBytes + 1]}

UserKeys == {"sk-user-key"}
UserRoles == {"teacher", "custom"}
UserPrompts == {"", "Answer as a domain expert."}
UserFormats == {"sharegpt", "alpaca"}

\* the user picks among the first MaxModelChoice entries of the model list
MaxModelChoice == 2

\* GET /providers answers: a backend that lists Ollama, Groq and OpenAI (a saved
\* "anthropic" is missing from it), with Ollama running or not
CatalogLocal ==
    [ollama |-> [name |-> "Ollama", available |-> TRUE, requires_api_key |-> FALSE,
                 models |-> <<"llama3.1:8b">>],
     groq |-> [FALLBACK_PROVIDERS.groq EXCEPT !.models = <<Scout, Llama33>>],
     openai |-> [FALLBACK_PROVIDERS.openai EXCEPT !.models = <<"gpt-4o">>]]
CatalogOllamaDown ==
    [CatalogLocal EXCEPT !.ollama = FALLBACK_PROVIDERS.ollama]
BackendCatalogs == {CatalogLocal, CatalogOllamaDown}

(***************************************************************************)
(* Upload form: helpers                                                    *)
(***************************************************************************)
\* String.prototype.toLowerCase on the last segment of a file name
ToLowerCaseExt(s) == IF s = "PDF" THEN "pdf" ELSE s

\* '.' + selectedFile.name.split('.').pop()?.toLowerCase()
FileExt(f) == "." \o ToLowerCaseExt(f.name[Len(f.name)])

\* saved.model.replace('llama-3.1-70b-versatile', 'llama-3.3-70b-versatile')
MigrateModel(m) == IF m = Llama31 THEN Llama33 ELSE m

\* sequence.includes(x)
Includes(seq, x) == \E i \in 1..Len(seq) : seq[i] = x

\* providers[provider]?.requires_api_key || false
RequiresApiKeyIn(provs, prov) ==
    prov \in DOMAIN provs /\ provs[prov].requires_api_key

\* data[p]?.available
AvailableIn(provs, prov) ==
    prov \in DOMAIN provs /\ provs[prov].available

requiresApiKey == RequiresApiKeyIn(providers, provider)

\* effect "Update API key when provider changes": the key stored for a provider
KeyFor(prov, store, avail) ==
    LET saved == StorageGetAll(store, avail)
    IN  CASE prov = "groq" -> OrElse(saved.groqApiKey, saved.apiKey)
          [] prov = "openai" -> saved.openaiApiKey
          [] prov = "anthropic" -> saved.anthropicApiKey
          [] OTHER -> ""

\* effect "Update available models when provider changes", followed by the
\* "Auto-save model on change" effect of the render it causes
ModelsEffect(provs, prov, curModel, curAvail, store, avail) ==
    IF prov \notin DOMAIN provs
    THEN [model |-> curModel, availableModels |-> curAvail, store |-> store]
    ELSE
        LET models == provs[prov].models
            savedModel == StorageGet(store, avail, "MODEL")
            migratedModel == MigrateModel(savedModel)
            store1 == IF migratedModel # "" /\ Includes(models, migratedModel)
                         /\ migratedModel # savedModel
                      THEN StorageSet(store, avail, "MODEL", migratedModel)
                      ELSE store
            newModel == IF migratedModel # "" /\ Includes(models, migratedModel)
                        THEN migratedModel
                        ELSE IF savedModel # "" /\ Includes(models, savedModel)
                        THEN savedModel
                        ELSE IF Len(models) > 0 THEN models[1]
                        ELSE curModel
            store2 == IF newModel # curModel /\ newModel # ""
                      THEN StorageSet(store1, avail, "MODEL", newModel)
                      ELSE store1
        IN  [model |-> newModel, availableModels |-> models, store |-> store2]

\* The effects that run after a render in which provider and/or providers
\* changed: API key for the provider, available models, auto-save provider.
\* provsChanged: setProviders was given an object other than the current one.
RunEffects(oldProv, newProv, provsChanged, newProvs, curKey, curModel, curAvail, store, avail) ==
    LET key == IF newProv # oldProv THEN KeyFor(newProv, store, avail) ELSE curKey
        m == IF newProv # oldProv \/ provsChanged
             THEN ModelsEffect(newProvs, newProv, curModel, curAvail, store, avail)
             ELSE [model |-> curModel, availableModels |-> curAvail, store |-> store]
        store3 == IF newProv # oldProv /\ newProv # ""
                  THEN StorageSet(m.store, avail, "PROVIDER", newProv)
                  ELSE m.store
    IN  [apiKey |-> key, model |-> m.model, availableModels |-> m.availableModels,
         store |-> store3]

(***************************************************************************)
(* Upload form: mount                                                      *)
(***************************************************************************)
\* The mount effects of FileUpload taken together: "Load saved settings"
\* restores provider, role, format and the (migrated) model from storage; the
\* auto-save effects of the following render write them back; the API-key
\* effect loads the key of the restored provider.
MountSettings(store, avail) ==
    LET saved == StorageGetAll(store, avail)
    IN  [provider |-> OrElse(saved.provider, "ollama"),
         role |-> OrElse(saved.role, "teacher"),
         format |-> OrElse(saved.format, "sharegpt"),
         model |-> IF saved.model # "" THEN MigrateModel(saved.model) ELSE ""]

MountStorage(store, avail) ==
    LET m == MountSettings(store, avail)
        s1 == StorageSet(store, avail, "PROVIDER", m.provider)
        s2 == StorageSet(s1, avail, "ROLE", m.role)
        s3 == StorageSet(s2, avail, "FORMAT", m.format)
    IN  IF m.model # "" THEN StorageSet(s3, avail, "MODEL", m.model) ELSE s3

\* component state right after mount over the given storage; loadProviders()
\* has been called and is waiting for GET /providers
Mounted(store, avail) ==
    LET m == MountSettings(store, avail)
    IN  /\ file' = NoFile
        /\ role' = m.role
        /\ customPrompt' = ""
        /\ provider' = m.provider
        /\ apiKey' = KeyFor(m.provider, store, avail)
        /\ model' = m.model
        /\ format' = m.format
        /\ loading' = FALSE
        /\ error' = ""
        /\ providers' = NoProviders
        /\ availableModels' = <<>>
        /\ loadingProviders' = TRUE
        /\ backendError' = FALSE
        /\ localStorage' = MountStorage(store, avail)
        /\ lpPc' = "fetching"
        /\ lpRetry' = 0
        /\ lpRequests' = 1

UploadIdle ==
    /\ file = NoFile
    /\ role = "teacher"
    /\ customPrompt = ""
    /\ provider = "ollama"
    /\ apiKey = ""
    /\ model = ""
    /\ format = "sharegpt"
    /\ loading = FALSE
    /\ error = ""
    /\ providers = NoProviders
    /\ availableModels = <<>>
    /\ loadingProviders = TRUE
    /\ backendError = FALSE
    /\ localStorage = EmptyStorage
    /\ storageAvailable = TRUE
    /\ lpPc = "fetching"
    /\ lpRetry = 0
    /\ lpRequests = 1
    /\ userPicked = FALSE

\* first visit: nothing stored yet, the form has just mounted
UploadInit ==
    /\ storageAvailable \in BOOLEAN
    /\ file = NoFile
    /\ role = "teacher"
    /\ customPrompt = ""
    /\ provider = "ollama"
    /\ apiKey = ""
    /\ model = ""
    /\ format = "sharegpt"
    /\ loading = FALSE
    /\ error = ""
    /\ providers = NoProviders
    /\ availableModels = <<>>
    /\ loadingProviders = TRUE
    /\ backendError = FALSE
    /\ localStorage = MountStorage(EmptyStorage, storageAvailable)
    /\ lpPc = "fetching"
    /\ lpRetry = 0
    /\ lpRequests = 1
    /\ userPicked = FALSE

(***************************************************************************)
(* Upload form: provider loading                                           *)
(***************************************************************************)
\* common tail of both loadProviders outcomes: the new provider and catalog
\* are rendered and the dependent effects run
SetProviderAndCatalog(newProv, newProvs, provsChanged) ==
    LET eff == RunEffects(provider, newProv, provsChanged, newProvs, apiKey, model,
                          availableModels, localStorage, storageAvailable)
    IN  /\ provider' = newProv
        /\ providers' = newProvs
        /\ apiKey' = eff.apiKey
        /\ model' = eff.model
        /\ availableModels' = eff.availableModels
        /\ localStorage' = eff.store

\* loadProviders, try branch: GET /providers answered with data
DefaultProvider(data, savedProvider, current) ==
    IF savedProvider # "" /\ AvailableIn(data, savedProvider) THEN savedProvider
    ELSE IF AvailableIn(data, "ollama") THEN "ollama"
    ELSE IF AvailableIn(data, "groq") THEN "groq"
    ELSE IF AvailableIn(data, "openai") THEN "openai"
    ELSE IF AvailableIn(data, "anthropic") THEN "anthropic"
    ELSE current

ProvidersLoaded(data) ==
    /\ lpPc = "fetching"
    /\ lpPc' = "done"
    /\ loadingProviders' = FALSE
    /\ backendError' = FALSE
    /\ SetProviderAndCatalog(
          DefaultProvider(data, StorageGet(localStorage, storageAvailable, "PROVIDER"),
                          provider),
          data, TRUE)
    /\ UNCHANGED <<file, role, customPrompt, format, loading, error, storageAvailable,
                   lpRetry, lpRequests,
                   userPicked>>

\* faulty variant: a second retry before the error is shown
RetryAllowed_Twice(retryCount) == retryCount < 2

\* if (retryCount < 1): retry once before showing the error
RetryAllowed(retryCount) == retryCount < 1

\* loadProviders, catch branch
FallbackProvider(savedProvider) ==
    IF savedProvider # "" /\ savedProvider \in DOMAIN FALLBACK_PROVIDERS
    THEN savedProvider ELSE "groq"

ProvidersFailed ==
    /\ lpPc = "fetching"
    /\ IF RetryAllowed(lpRetry)
       THEN /\ lpPc' = "timer"
            /\ UNCHANGED <<provider, providers, apiKey, model, availableModels,
                           localStorage, loadingProviders, backendError>>
       ELSE /\ lpPc' = "done"
            /\ backendError' = TRUE
            /\ loadingProviders' = FALSE
            /\ SetProviderAndCatalog(
                  FallbackProvider(StorageGet(localStorage, storageAvailable, "PROVIDER")),
                  FALLBACK_PROVIDERS, providers # FALLBACK_PROVIDERS)
    /\ UNCHANGED <<file, role, customPrompt, format, loading, error, storageAvailable,
                   lpRetry, lpRequests,
                   userPicked>>

\* synchronous head of loadProviders(retryCount)
StartLoadProviders(retryCount) ==
    /\ loadingProviders' = TRUE
    /\ backendError' = FALSE
    /\ error' = ""
    /\ lpRetry' = retryCount
    /\ lpRequests' = IF retryCount = 0 THEN 1 ELSE lpRequests + 1
    /\ lpPc' = "fetching"
    /\ UNCHANGED <<file, role, customPrompt, provider, apiKey, model, format, loading,
                   providers, availableModels, localStorage, storageAvailable,
                   userPicked>>

\* setTimeout(() => loadProviders(retryCount + 1), 1000) fires
RetryTimer ==
    /\ lpPc = "timer"
    /\ StartLoadProviders(lpRetry + 1)

\* the Reconnect button: onClick={() => loadProviders(0)}, disabled while loading
Reconnect ==
    /\ backendError
    /\ ~loadingProviders
    /\ StartLoadProviders(0)

(***************************************************************************)
(* Upload form: the user's controls                                        *)
(***************************************************************************)
\* provider <select>: rendered once providers are loaded, unavailable options
\* are disabled
SelectProvider(p) ==
    /\ ~loadingProviders
    /\ AvailableIn(providers, p)
    /\ p # provider
    /\ SetProviderAndCatalog(p, providers, FALSE)
    /\ userPicked' = TRUE
    /\ UNCHANGED <<file, role, customPrompt, format, loading, error, loadingProviders,
                   backendError, storageAvailable, lpPc, lpRetry,
                   lpRequests>>

\* model <select>, followed by the "Auto-save model" effect
SelectModel(m) ==
    /\ Includes(availableModels, m)
    /\ m # model
    /\ model' = m
    /\ localStorage' = IF m # "" THEN StorageSet(localStorage, storageAvailable, "MODEL", m)
                       ELSE localStorage
    /\ UNCHANGED <<file, role, customPrompt, provider, apiKey, format, loading, error,
                   providers, availableModels, loadingProviders, backendError,
                   storageAvailable, lpPc, lpRetry,
                   lpRequests, userPicked>>

\* role <select>, followed by the "Auto-save role" effect
SelectRole(r) ==
    /\ r # role
    /\ role' = r
    /\ localStorage' = IF r # "" THEN StorageSet(localStorage, storageAvailable, "ROLE", r)
                       ELSE localStorage
    /\ UNCHANGED <<file, customPrompt, provider, apiKey, model, format, loading, error,
                   providers, availableModels, loadingProviders, backendError,
                   storageAvailable, lpPc, lpRetry,
                   lpRequests, userPicked>>

\* custom prompt <textarea>, rendered while role is "custom"
EditCustomPrompt(t) ==
    /\ role = "custom"
    /\ t # customPrompt
    /\ customPrompt' = t
    /\ UNCHANGED <<file, role, provider, apiKey, model, format, loading, error,
                   providers, availableModels, loadingProviders, backendError,
                   localStorage, storageAvailable, lpPc, lpRetry,
                   lpRequests, userPicked>>

\* output format radio buttons, followed by the "Auto-save format" effect
SelectFormat(f) ==
    /\ f # format
    /\ format' = f
    /\ localStorage' = IF f # "" THEN StorageSet(localStorage, storageAvailable, "FORMAT", f)
                       ELSE localStorage
    /\ UNCHANGED <<file, role, customPrompt, provider, apiKey, model, loading, error,
                   providers, availableModels, loadingProviders, backendError,
                   storageAvailable, lpPc, lpRetry,
                   lpRequests, userPicked>>

\* API key <input>: rendered while the provider requires a key and none is held;
\* the key is saved under the provider's storage key
SaveKeyFor(prov, store, avail, newKey) ==
    CASE prov = "groq" ->
             StorageSet(StorageSet(store, avail, "GROQ_API_KEY", newKey),
                        avail, "API_KEY", newKey)
      [] prov = "openai" -> StorageSet(store, avail, "OPENAI_API_KEY", newKey)
      [] prov = "anthropic" -> StorageSet(store, avail, "ANTHROPIC_API_KEY", newKey)
      [] OTHER -> store

EnterApiKey(newKey) ==
    /\ requiresApiKey
    /\ apiKey = ""
    /\ apiKey' = newKey
    /\ localStorage' = SaveKeyFor(provider, localStorage, storageAvailable, newKey)
    /\ UNCHANGED <<file, role, customPrompt, provider, model, format, loading, error,
                   providers, availableModels, loadingProviders, backendError,
                   storageAvailable, lpPc, lpRetry,
                   lpRequests, userPicked>>

\* the "Change" button next to a held key: onClick={() => setApiKey('')}
ChangeApiKey ==
    /\ requiresApiKey
    /\ apiKey # ""
    /\ apiKey' = ""
    /\ UNCHANGED <<file, role, customPrompt, provider, model, format, loading, error,
                   providers, availableModels, loadingProviders, backendError,
                   localStorage, storageAvailable, lpPc, lpRetry,
                   lpRequests, userPicked>>

(***************************************************************************)
(* Upload form: file selection and submission                              *)
(***************************************************************************)
\* faulty variant: the extension check is left out
SupportedExt_Any(f) == TRUE

\* handleFileChange, reached from the file input and from handleDrop
SupportedExt(f) == FileExt(f) \in SUPPORTED_FILE_TYPES

\* faulty variant: the limit test written with >= instead of >
WithinSizeLimit_Strict(f) == ~(f.size >= MaxFileBytes)

\* !(selectedFile.size > 100 * 1024 * 1024)
WithinSizeLimit(f) == ~(f.size > MaxFileBytes)

handleFileChange(selectedFile) ==
    /\ IF ~SupportedExt(selectedFile)
       THEN error' = ErrUnsupported /\ file' = file
       ELSE IF ~WithinSizeLimit(selectedFile)
       THEN error' = ErrTooLarge /\ file' = file
       ELSE error' = "" /\ file' = selectedFile
    /\ UNCHANGED <<role, customPrompt, provider, apiKey, model, format, loading,
                   providers, availableModels, loadingProviders, backendError,
                   localStorage, storageAvailable, lpPc, lpRetry,
                   lpRequests, userPicked>>

\* the submit button's disabled attribute
SubmitDisabled ==
    loading \/ file = NoFile \/ model = "" \/ (requiresApiKey /\ apiKey = "")

\* the FormData handleSubmit builds
FormData ==
    LET withKey == requiresApiKey /\ apiKey # ""
        withPrompt == role = "custom" /\ customPrompt # ""
    IN  [fields |-> {"file", "role", "dataset_format", "provider_type", "model_name"}
                    \cup (IF withKey THEN {"api_key"} ELSE {})
                    \cup (IF withPrompt THEN {"custom_prompt"} ELSE {}),
         file |-> file, role |-> role, dataset_format |-> format,
         provider_type |-> provider, model_name |-> model,
         api_key |-> IF withKey THEN apiKey ELSE "",
         custom_prompt |-> IF withPrompt THEN customPrompt ELSE ""]

\* handleSubmit up to the await of projectAPI.createProject
handleSubmit ==
    /\ ~SubmitDisabled
    /\ IF file = NoFile
       THEN error' = ErrNoFile /\ UNCHANGED loading
       ELSE IF requiresApiKey /\ apiKey = ""
       THEN error' = ErrApiKey /\ UNCHANGED loading
       ELSE IF model = ""
       THEN error' = ErrNoModel /\ UNCHANGED loading
       ELSE /\ error' = ""
            /\ loading' = TRUE
    /\ UNCHANGED <<file, role, customPrompt, provider, apiKey, model, format,
                   providers, availableModels, loadingProviders, backendError,
                   localStorage, storageAvailable, lpPc, lpRetry,
                   lpRequests, userPicked>>

\* createProject resolved: the form is reset (role back to "teacher", auto-saved)
SubmitSucceeded ==
    /\ loading
    /\ file' = NoFile
    /\ role' = "teacher"
    /\ customPrompt' = ""
    /\ loading' = FALSE
    /\ localStorage' = IF role # "teacher"
                       THEN StorageSet(localStorage, storageAvailable, "ROLE", "teacher")
                       ELSE localStorage
    /\ UNCHANGED <<provider, apiKey, model, format, error, providers, availableModels,
                   loadingProviders, backendError, storageAvailable, lpPc, lpRetry,
                   lpRequests, userPicked>>

\* createProject rejected
SubmitFailed ==
    /\ loading
    /\ error' = ErrUpload
    /\ loading' = FALSE
    /\ UNCHANGED <<file, role, customPrompt, provider, apiKey, model, format,
                   providers, availableModels, loadingProviders, backendError,
                   localStorage, storageAvailable, lpPc, lpRetry,
                   lpRequests, userPicked>>

\* the page is loaded again: state is rebuilt from storage, pending work is gone
Reload ==
    /\ Mounted(localStorage, storageAvailable)
    /\ UNCHANGED <<storageAvailable, userPicked>>

OthersIdleUpload == UNCHANGED <<pollVars, stepVars, genVars, restVars>>

UploadNext ==
    \/ (\E data \in BackendCatalogs : ProvidersLoaded(data)) /\ OthersIdleUpload
    \/ ProvidersFailed /\ OthersIdleUpload
    \/ RetryTimer /\ OthersIdleUpload
    \/ Reconnect /\ OthersIdleUpload
    \/ (\E p \in DOMAIN FALLBACK_PROVIDERS : SelectProvider(p)) /\ OthersIdleUpload
    \/ (\E i \in 1..MaxModelChoice :
            i <= Len(availableModels) /\ SelectModel(availableModels[i])) /\ OthersIdleUpload
    \/ (\E r \in UserRoles : SelectRole(r)) /\ OthersIdleUpload
    \/ (\E t \in UserPrompts : EditCustomPrompt(t)) /\ OthersIdleUpload
    \/ (\E f \in UserFormats : SelectFormat(f)) /\ OthersIdleUpload
    \/ (\E k \in UserKeys : EnterApiKey(k)) /\ OthersIdleUpload
    \/ ChangeApiKey /\ OthersIdleUpload
    \/ (\E f \in Files : handleFileChange(f)) /\ OthersIdleUpload
    \/ handleSubmit /\ OthersIdleUpload
    \/ SubmitSucceeded /\ OthersIdleUpload
    \/ SubmitFailed /\ OthersIdleUpload
    \/ Reload /\ OthersIdleUpload

(***************************************************************************)
(* Job Store record and its owning worker (backend, from the design spec)  *)
(***************************************************************************)
\* chunks of the polled job; progress while generating is 40 + 30*completed/total
PollChunks == 2

\* most status requests that may be awaiting their answer at once
MaxInFlight == 2

NewJob == [status |-> "processing", progress |-> 0, error_message |-> ""]

JobErrorMessage == "Groq llama-3.3-70b-versatile: rate limit exceeded after 3 attempts"

\* progress thresholds of the stages up to Finalizing
StageProgress ==
    {0, 20, 90} \cup {40 + (30 * k) \div PollChunks : k \in 0..PollChunks}

NextProgress(p) ==
    CHOOSE q \in StageProgress : q > p /\ \A r \in StageProgress : r > p => q <= r

\* faulty variant: the completed status is written before progress reaches 100
CompletionWrites_StatusFirst == <<"status", "progress">>

\* the per-field writes that end a successful run, in order
CompletionWrites == <<"progress", "status">>

\* the per-field writes that end a failed run, in order
FailureWrites == <<"status", "error_message">>

IdleWorker == [phase |-> "run", next |-> 1]

\* one atomic per-field update of the job record
ApplyWrite(j, phase, field) ==
    IF phase = "completing"
    THEN IF field = "progress" THEN [j EXCEPT !.progress = 100]
         ELSE [j EXCEPT !.status = "completed"]
    ELSE IF field = "status" THEN [j EXCEPT !.status = "failed"]
         ELSE [j EXCEPT !.error_message = JobErrorMessage]

\* the worker enters the next stage and writes its progress
WorkerAdvance ==
    /\ workerPc.phase = "run"
    /\ job.progress < 90
    /\ job' = [job EXCEPT !.progress = NextProgress(job.progress)]
    /\ UNCHANGED workerPc

\* the artifact is persisted; the closing writes are due
WorkerFinish ==
    /\ workerPc.phase = "run"
    /\ job.progress = 90
    /\ workerPc' = [phase |-> "completing", next |-> 1]
    /\ UNCHANGED job

\* an unrecoverable error at any stage; the failure writes are due
WorkerError ==
    /\ workerPc.phase = "run"
    /\ workerPc' = [phase |-> "failing", next |-> 1]
    /\ UNCHANGED job

\* the next closing write
WorkerWrite ==
    /\ workerPc.phase \in {"completing", "failing"}
    /\ LET writes == IF workerPc.phase = "completing" THEN CompletionWrites
                     ELSE FailureWrites
       IN  /\ job' = ApplyWrite(job, workerPc.phase, writes[workerPc.next])
           /\ workerPc' = IF workerPc.next = Len(writes)
                          THEN [phase |-> "done", next |-> 1]
                          ELSE [workerPc EXCEPT !.next = @ + 1]

(***************************************************************************)
(* ProjectStatus: the polling client                                       *)
(***************************************************************************)
\* useState<ProjectData | null>(null)
NoProject == [status |-> "", progress |-> 0, error_message |-> ""]

\* a status request the server has not answered yet
NoData == [status |-> "<pending>", progress |-> 0, error_message |-> ""]

ErrFetch == "Failed to fetch project status"

RemoveAt(seq, i) == SubSeq(seq, 1, i - 1) \o SubSeq(seq, i + 1, Len(seq))

\* fetchProject() is called: GET /projects/{id} goes out; the call keeps the
\* showConfetti of the render that created it
NewRequest(confetti) == [confetti |-> confetti, data |-> NoData]

\* faulty variant: the callback fetches whatever the status
IntervalTick_Always ==
    /\ Len(requests) < MaxInFlight
    /\ requests' = Append(requests, NewRequest(showConfetti))
    /\ UNCHANGED <<job, workerPc, project, psLoading, psError, showConfetti,
                   datasetPreview, downloads, everCompleted, onlyCompleted>>

\* the interval callback
IntervalTick ==
    /\ project.status # "completed" /\ project.status # "failed"
    /\ Len(requests) < MaxInFlight
    /\ requests' = Append(requests, NewRequest(showConfetti))
    /\ UNCHANGED <<job, workerPc, project, psLoading, psError, showConfetti,
                   datasetPreview, downloads, everCompleted, onlyCompleted>>

\* the backend reads the job record for a pending request
ServerAnswers(i) ==
    /\ requests[i].data = NoData
    /\ requests' = [requests EXCEPT ![i].data = job]
    /\ UNCHANGED <<job, workerPc, project, psLoading, psError, showConfetti,
                   datasetPreview, downloads, everCompleted, onlyCompleted>>

\* faulty variant: the preview is loaded once progress reads 100
FirstCompletion_ByProgress(data, confetti) == data.progress >= 100 /\ ~confetti

\* data.status === "completed" && !showConfetti
FirstCompletion(data, confetti) == data.status = "completed" /\ ~confetti

\* fetchProject, try branch: the answer of request i arrives; then the effect
\* runs again if project?.status or showConfetti changed (one more fetchProject)
ResponseArrives(i) ==
    /\ requests[i].data # NoData
    /\ LET data == requests[i].data
           fire == FirstCompletion(data, requests[i].confetti)
           confetti == showConfetti \/ fire
           rerun == data.status # project.status \/ confetti # showConfetti
       IN  /\ project' = data
           /\ psLoading' = FALSE
           /\ psError' = ""
           /\ showConfetti' = confetti
           /\ downloads' = IF fire THEN downloads + 1 ELSE downloads
           /\ everCompleted' = (everCompleted \/ data.status = "completed")
           /\ onlyCompleted' = (onlyCompleted /\ data.status = "completed")
           /\ requests' = IF rerun
                          THEN Append(RemoveAt(requests, i), NewRequest(confetti))
                          ELSE RemoveAt(requests, i)
    /\ UNCHANGED <<job, workerPc, datasetPreview>>

\* faulty variant: a failed request also drops the recorded snapshot
RequestFails_Clearing(i) ==
    /\ psError' = ErrFetch
    /\ psLoading' = FALSE
    /\ project' = NoProject
    /\ requests' = RemoveAt(requests, i)
    /\ UNCHANGED <<job, workerPc, showConfetti, datasetPreview, downloads,
                   everCompleted, onlyCompleted>>

\* fetchProject, catch branch: request i fails
RequestFails(i) ==
    /\ psError' = ErrFetch
    /\ psLoading' = FALSE
    /\ requests' = RemoveAt(requests, i)
    /\ UNCHANGED <<job, workerPc, project, showConfetti, datasetPreview, downloads,
                   everCompleted, onlyCompleted>>

\* loadDatasetPreview: the download answered, the preview lines are set
PreviewLoaded ==
    /\ downloads > 0
    /\ ~datasetPreview
    /\ datasetPreview' = TRUE
    /\ UNCHANGED <<job, workerPc, project, psLoading, psError, showConfetti,
                   requests, downloads, everCompleted, onlyCompleted>>

\* which of the component's five returns is rendered
View ==
    IF psLoading THEN "loading"
    ELSE IF psError # "" /\ project = NoProject THEN "connection_error"
    ELSE IF project.status = "failed" THEN "failed"
    ELSE IF project.status = "completed" THEN "completed"
    ELSE "processing"

GenericFailure == "An error occurred during dataset generation"

\* the text of the failed view: project.error_message || generic text
FailedMessage ==
    IF project.error_message # "" THEN project.error_message ELSE GenericFailure

\* the <a href={downloadUrl} download> of the completed view
DownloadLinked == View = "completed"

\* mount: the effect has run once, its first fetchProject() is in flight
PollInit ==
    /\ job = NewJob
    /\ workerPc = IdleWorker
    /\ project = NoProject
    /\ psLoading = TRUE
    /\ psError = ""
    /\ showConfetti = FALSE
    /\ datasetPreview = FALSE
    /\ requests = <<NewRequest(FALSE)>>
    /\ downloads = 0
    /\ everCompleted = FALSE
    /\ onlyCompleted = TRUE

OthersIdlePoll == UNCHANGED <<uploadVars, stepVars, genVars, restVars>>

ClientIdle ==
    UNCHANGED <<project, psLoading, psError, showConfetti, datasetPreview,
                requests, downloads, everCompleted, onlyCompleted>>

PollNext ==
    \/ WorkerAdvance /\ ClientIdle /\ OthersIdlePoll
    \/ WorkerFinish /\ ClientIdle /\ OthersIdlePoll
    \/ WorkerError /\ ClientIdle /\ OthersIdlePoll
    \/ WorkerWrite /\ ClientIdle /\ OthersIdlePoll
    \/ IntervalTick /\ OthersIdlePoll
    \/ (\E i \in 1..Len(requests) : ServerAnswers(i)) /\ OthersIdlePoll
    \/ (\E i \in 1..Len(requests) : ResponseArrives(i)) /\ OthersIdlePoll
    \/ (\E i \in 1..Len(requests) : RequestFails(i)) /\ OthersIdlePoll
    \/ PreviewLoaded /\ OthersIdlePoll

(***************************************************************************)
(* ProjectStatus: getCurrentStep                                           *)
(***************************************************************************)
PROCESSING_STEPS ==
    <<[threshold |-> 0, label |-> "Initializing"],
      [threshold |-> 20, label |-> "Ingesting"],
      [threshold |-> 40, label |-> "Generating Conversations"],
      [threshold |-> 70, label |-> "Formatting"],
      [threshold |-> 90, label |-> "Finalizing"],
      [threshold |-> 100, label |-> "Complete"]>>

\* every value of ProjectData.progress
ProgressValues == 0..100

\* faulty variant: the threshold test written with > instead of >=
ThresholdPassed_Strict(progress, threshold) == progress > threshold

\* progress >= PROCESSING_STEPS[i].threshold
ThresholdPassed(progress, threshold) == progress >= threshold

\* the loop of getCurrentStep, from index i downwards (indices from 1 here);
\* after the loop the function returns PROCESSING_STEPS[0]
RECURSIVE StepFrom(_, _)
StepFrom(progress, i) ==
    IF i = 0 THEN 1
    ELSE IF ThresholdPassed(progress, PROCESSING_STEPS[i].threshold) THEN i
    ELSE StepFrom(progress, i - 1)

\* getCurrentStep for a given project?.progress || 0
getCurrentStep(progress) ==
    LET i == StepFrom(progress, Len(PROCESSING_STEPS))
    IN  [index |-> i, threshold |-> PROCESSING_STEPS[i].threshold,
         label |-> PROCESSING_STEPS[i].label]

\* before the first snapshot: project is null, progress reads 0
StepInit ==
    /\ stepProgress = 0
    /\ currentStep = getCurrentStep(0)

\* a snapshot with progress p is rendered
RenderProgress(p) ==
    /\ stepProgress' = p
    /\ currentStep' = getCurrentStep(p)

StepNext ==
    (\E p \in ProgressValues : RenderProgress(p))
        /\ UNCHANGED <<uploadVars, pollVars, genVars, restVars>>

(***************************************************************************)
(* Provider Abstraction: generate with vision routing (from the design     *)
(* spec; the backend's providers module is not part of these sources)      *)
(***************************************************************************)
\* chunks of one generation job
MaxGenChunks == 2

\* the model Groq routes image chunks to
GroqVisionModel == Scout

\* backends as capability-tagged variants: their models and vision subset
GenBackends ==
    [groq |-> [models |-> <<Scout, Llama33>>, vision |-> <<GroqVisionModel>>],
     openai |-> [models |-> <<"gpt-4o", "gpt-3.5-turbo">>, vision |-> <<"gpt-4o">>],
     ollama_vision |-> [models |-> <<"llama3.1:8b", "llama3.2-vision:11b">>,
                        vision |-> <<"llama3.2-vision:11b">>],
     ollama_text |-> [models |-> <<"llama3.1:8b">>, vision |-> <<>>]]

\* a chunk is a sequence of content-unit kinds
GenChunkShapes == {<<"text">>, <<"image">>, <<"text", "image">>}

HasImage(chunk) == \E i \in 1..Len(chunk) : chunk[i] = "image"

ImageCount(chunk) == Cardinality({i \in 1..Len(chunk) : chunk[i] = "image"})

\* faulty variant: the caller's model is used as selected
EffectiveModel_NoRouting(backend, selected, chunk) == selected

\* the model a call really uses; "" when the backend cannot take the chunk
EffectiveModel(backend, selected, chunk) ==
    LET vision == GenBackends[backend].vision
    IN  IF ~HasImage(chunk) THEN selected
        ELSE IF Includes(vision, selected) THEN selected
        ELSE IF Len(vision) > 0 THEN vision[1]
        ELSE ""

\* generate(chunk, role_prompt, model): what is sent to which model
Generate(backend, selected, chunk) ==
    LET effective == EffectiveModel(backend, selected, chunk)
    IN  IF effective = ""
        THEN [chunk |-> chunk, selected |-> selected, effective |-> "",
              outcome |-> "VisionUnsupported", imagesSent |-> 0]
        ELSE [chunk |-> chunk, selected |-> selected, effective |-> effective,
              outcome |-> "ok", imagesSent |-> ImageCount(chunk)]

\* most attempts of one provider call ("up to 3 attempts")
MaxAttempts == 3

\* what one attempt of a provider call can end with
ProviderResults ==
    {"ok", "ProviderRateLimited", "ProviderNetworkError", "ProviderAuthError",
     "ProviderModelUnavailable"}

\* faulty variant: every failure is retried
Retryable_Any(result) == result # "ok"

\* the transient-failure classes: rate limit and network
Retryable(result) == result \in {"ProviderRateLimited", "ProviderNetworkError"}

\* faulty variant: a chunk whose call failed for good is left out
ChunkFailureStatus_Skip == "processing"

\* the job status after a chunk's call failed for good
ChunkFailureStatus == "failed"

\* a job is accepted: backend, model and chunks are fixed
GenInit ==
    /\ genBackend \in DOMAIN GenBackends
    /\ \E i \in 1..Len(GenBackends[genBackend].models) :
          genSelected = GenBackends[genBackend].models[i]
    /\ \E n \in 1..MaxGenChunks : genChunks \in [1..n -> GenChunkShapes]
    /\ genIndex = 0
    /\ genCalls = <<>>
    /\ genStatus = "processing"
    /\ genAttempts = 0
    /\ genPairs = <<>>
    /\ genError = ""

\* a chunk's call failed for good: the whole job fails
ChunkFailed(err) ==
    /\ genStatus' = ChunkFailureStatus
    /\ genError' = err
    /\ genAttempts' = 0
    /\ genIndex' = IF ChunkFailureStatus = "failed" THEN genIndex ELSE genIndex + 1
    /\ UNCHANGED genPairs

\* the orchestrator sends the next chunk, in source order: one attempt of
\* generate on it, ending with result
GenerateNextChunk(result) ==
    /\ genStatus = "processing"
    /\ genIndex < Len(genChunks)
    /\ LET routed == Generate(genBackend, genSelected, genChunks[genIndex + 1])
           sent == routed.outcome = "ok"
           call == [chunk |-> routed.chunk, selected |-> routed.selected,
                    effective |-> routed.effective, outcome |-> routed.outcome,
                    imagesSent |-> routed.imagesSent, index |-> genIndex + 1,
                    attempt |-> genAttempts + 1,
                    result |-> IF sent THEN result ELSE routed.outcome]
       IN  /\ sent \/ result = "ok"
           /\ genCalls' = Append(genCalls, call)
           /\ IF call.result = "ok"
              THEN /\ genIndex' = genIndex + 1
                   /\ genPairs' = Append(genPairs, genIndex + 1)
                   /\ genAttempts' = 0
                   /\ UNCHANGED <<genStatus, genError>>
              ELSE IF Retryable(call.result) /\ call.attempt < MaxAttempts
              THEN /\ genAttempts' = call.attempt
                   /\ UNCHANGED <<genIndex, genPairs, genStatus, genError>>
              ELSE ChunkFailed(call.result)
    /\ UNCHANGED <<genBackend, genSelected, genChunks>>

\* all chunks are processed
GenFinish ==
    /\ genStatus = "processing"
    /\ genIndex = Len(genChunks)
    /\ genStatus' = "completed"
    /\ UNCHANGED <<genBackend, genSelected, genChunks, genIndex, genCalls,
                   genAttempts, genPairs, genError>>

GenNext ==
    \/ (\E result \in ProviderResults : GenerateNextChunk(result))
          /\ UNCHANGED <<uploadVars, pollVars, stepVars, restVars>>
    \/ GenFinish /\ UNCHANGED <<uploadVars, pollVars, stepVars, restVars>>

(***************************************************************************)
(* Job submission and the background workers (from the design spec; the    *)
(* backend's job runner is not part of these sources)                      *)
(***************************************************************************)
\* jobs submitted in one run of the process
MaxJobs == 3

\* faulty variant: every submission gets the same job id
NextJobId_Reused(count) == 1

\* the opaque id of a new job: never used before
NextJobId(count) == count + 1

NoJobs == [j \in {} |-> NewJob]

\* POST /projects is accepted: the Job is created in state processing with
\* progress 0 and one background unit of work is started for it
SubmitJob ==
    /\ runsStarted < MaxJobs
    /\ LET id == NextJobId(Cardinality(DOMAIN jobStore))
           created == [status |-> "processing", progress |-> 0, writers |-> {}]
       IN  /\ jobStore' = [j \in DOMAIN jobStore \cup {id} |->
                              IF j = id THEN created ELSE jobStore[j]]
           /\ jobRuns' = jobRuns \cup {[worker |-> runsStarted + 1, job |-> id]}
    /\ runsStarted' = runsStarted + 1

\* a run writes the progress of its job's next stage
RunAdvances(run) ==
    /\ jobStore[run.job].status = "processing"
    /\ jobStore[run.job].progress < 90
    /\ LET rec == jobStore[run.job]
       IN  jobStore' = [jobStore EXCEPT ![run.job] =
              [status |-> rec.status, progress |-> NextProgress(rec.progress),
               writers |-> rec.writers \cup {run.worker}]]
    /\ UNCHANGED <<jobRuns, runsStarted>>

\* a run ends: it writes the terminal status and drops its working reference
RunEnds(run, status) ==
    /\ status = "completed" => jobStore[run.job].progress = 90
    /\ LET rec == jobStore[run.job]
       IN  jobStore' = [jobStore EXCEPT ![run.job] =
              [status |-> status,
               progress |-> IF status = "completed" THEN 100 ELSE rec.progress,
               writers |-> rec.writers \cup {run.worker}]]
    /\ jobRuns' = jobRuns \ {run}
    /\ UNCHANGED runsStarted

JobsInit ==
    /\ jobStore = NoJobs
    /\ jobRuns = {}
    /\ runsStarted = 0

JobsNext ==
    \/ SubmitJob /\ UNCHANGED <<uploadVars, pollVars, stepVars, genVars, batVars, stoVars,
                       smVars>>
    \/ (\E run \in jobRuns : RunAdvances(run))
          /\ UNCHANGED <<uploadVars, pollVars, stepVars, genVars, batVars, stoVars,
                       smVars>>
    \/ (\E run \in jobRuns : \E status \in {"completed", "failed"} : RunEnds(run, status))
          /\ UNCHANGED <<uploadVars, pollVars, stepVars, genVars, batVars, stoVars,
                       smVars>>

(***************************************************************************)
(* start_app.bat: the launcher script                                      *)
(***************************************************************************)
\* what one run of the script finds
BatInputs ==
    [choice : {"1", "2", "3"}, venv : BOOLEAN, installExit : {0, 1},
     gpuExit : {0, 1}, nodeModules : BOOLEAN, errorlevel : {0, 1}]

\* %errorlevel% inside a parenthesised block: the command processor replaces it
\* when it reads the whole block, before any command of the block runs
ErrorlevelInBlock(parsed, current) == parsed

BatInit ==
    /\ batInput \in BatInputs
    /\ batPc = "start"
    /\ batErrorlevel = batInput.errorlevel
    /\ batExpanded = 0
    /\ batVenv = batInput.venv
    /\ batMode = ""
    /\ batEvents = {}

\* SETLOCAL EnableDelayedExpansion: with a valid argument it sets ERRORLEVEL to 0
BatSetlocal ==
    /\ batPc = "start"
    /\ batErrorlevel' = 0
    /\ batPc' = "choose"
    /\ UNCHANGED <<batExpanded, batInput, batVenv, batMode, batEvents>>

\* set /p MODE_CHOICE and the two goto; anything else is an invalid choice
BatChooseMode ==
    /\ batPc = "choose"
    /\ IF batInput.choice = "1"
       THEN batMode' = "cloud" /\ batPc' = "check_env" /\ UNCHANGED batEvents
       ELSE IF batInput.choice = "2"
       THEN batMode' = "local" /\ batPc' = "check_env" /\ UNCHANGED batEvents
       ELSE /\ batEvents' = batEvents \cup {"invalid_choice"}
            /\ batPc' = "exited"
            /\ UNCHANGED batMode
    /\ UNCHANGED <<batErrorlevel, batExpanded, batInput, batVenv>>

\* if not exist ".venv\Scripts\activate.bat" ( ... ): the block is read
BatCheckEnv ==
    /\ batPc = "check_env"
    /\ batExpanded' = batErrorlevel
    /\ batPc' = IF batVenv THEN "activate" ELSE "install"
    /\ batEvents' = IF batVenv THEN batEvents ELSE batEvents \cup {"first_run"}
    /\ UNCHANGED <<batErrorlevel, batInput, batVenv, batMode>>

\* call scripts\install.bat
BatRunInstaller ==
    /\ batPc = "install"
    /\ batErrorlevel' = batInput.installExit
    /\ batVenv' = (batInput.installExit = 0)
    /\ batEvents' = batEvents \cup {"install_ran"}
    /\ batPc' = "install_check"
    /\ UNCHANGED <<batExpanded, batInput, batMode>>

\* if %errorlevel% neq 0 ( echo [ERROR] Installation failed. ... exit /b )
BatCheckInstaller ==
    /\ batPc = "install_check"
    /\ IF ErrorlevelInBlock(batExpanded, batErrorlevel) # 0
       THEN /\ batEvents' = batEvents \cup {"installation_failed_reported"}
            /\ batPc' = "exited"
       ELSE /\ batEvents' = batEvents \cup {"setup_complete_reported"}
            /\ batPc' = "activate"
    /\ UNCHANGED <<batErrorlevel, batExpanded, batInput, batVenv, batMode>>

\* call .venv\Scripts\activate.bat
BatActivate ==
    /\ batPc = "activate"
    /\ batEvents' = batEvents \cup {"activate_called"}
    /\ batErrorlevel' = IF batVenv THEN 0 ELSE 1
    /\ batPc' = IF batMode = "local" THEN "gpu" ELSE "frontend"
    /\ UNCHANGED <<batExpanded, batInput, batVenv, batMode>>

\* local mode: call scripts\install_gpu.bat, a warning when it fails
BatGpuCheck ==
    /\ batPc = "gpu"
    /\ batErrorlevel' = batInput.gpuExit
    /\ batEvents' = IF batInput.gpuExit # 0 THEN batEvents \cup {"gpu_warning"}
                    ELSE batEvents
    /\ batPc' = "frontend"
    /\ UNCHANGED <<batExpanded, batInput, batVenv, batMode>>

\* cd ui; npm install when node_modules is missing; call npm run dev
BatLaunch ==
    /\ batPc = "frontend"
    /\ batEvents' = batEvents \cup {"npm_run_dev"}
                       \cup (IF batInput.nodeModules THEN {} ELSE {"npm_install"})
    /\ batPc' = "running"
    /\ UNCHANGED <<batErrorlevel, batExpanded, batInput, batVenv, batMode>>

BatOthersIdle ==
    UNCHANGED <<uploadVars, pollVars, stepVars, genVars, jobsVars, stoVars, smVars>>

BatNext ==
    \/ BatSetlocal /\ BatOthersIdle
    \/ BatChooseMode /\ BatOthersIdle
    \/ BatCheckEnv /\ BatOthersIdle
    \/ BatRunInstaller /\ BatOthersIdle
    \/ BatCheckInstaller /\ BatOthersIdle
    \/ BatActivate /\ BatOthersIdle
    \/ BatGpuCheck /\ BatOthersIdle
    \/ BatLaunch /\ BatOthersIdle

(***************************************************************************)
(* FineTuneMeStorage on its own: setAll, clear, clearSecrets, export and   *)
(* import, as the settings dialog calls them                               *)
(***************************************************************************)
\* the fields of FineTuneMeSettings with their storage key, in setAll's order
SettingsFields ==
    <<[field |-> "provider", key |-> "PROVIDER"],
      [field |-> "apiKey", key |-> "API_KEY"],
      [field |-> "groqApiKey", key |-> "GROQ_API_KEY"],
      [field |-> "openaiApiKey", key |-> "OPENAI_API_KEY"],
      [field |-> "anthropicApiKey", key |-> "ANTHROPIC_API_KEY"],
      [field |-> "model", key |-> "MODEL"],
      [field |-> "role", key |-> "ROLE"],
      [field |-> "format", key |-> "FORMAT"]>>

\* setAll, from its n-th line on: set the field when it is not undefined
RECURSIVE SetAllFrom(_, _, _, _)
SetAllFrom(store, avail, settings, n) ==
    IF n > Len(SettingsFields) THEN store
    ELSE LET f == SettingsFields[n]
             next == IF f.field \in DOMAIN settings
                     THEN StorageSet(store, avail, f.key, settings[f.field])
                     ELSE store
         IN  SetAllFrom(next, avail, settings, n + 1)

\* FineTuneMeStorage.setAll
StorageSetAll(store, avail, settings) == SetAllFrom(store, avail, settings, 1)

\* FineTuneMeStorage.clear: removeItem for every storage key
StorageClear(store, avail) == IF ~avail THEN store ELSE EmptyStorage

\* faulty variant: the legacy key is left in place
SecretKeys_NoLegacy == <<"GROQ_API_KEY", "OPENAI_API_KEY", "ANTHROPIC_API_KEY">>

\* the keys clearSecrets sets to '', in its order
SecretKeys == <<"API_KEY", "GROQ_API_KEY", "OPENAI_API_KEY", "ANTHROPIC_API_KEY">>

RECURSIVE ClearSecretsFrom(_, _, _)
ClearSecretsFrom(store, avail, n) ==
    IF n > Len(SecretKeys) THEN store
    ELSE ClearSecretsFrom(StorageSet(store, avail, SecretKeys[n], ""), avail, n + 1)

\* FineTuneMeStorage.clearSecrets
StorageClearSecrets(store, avail) == ClearSecretsFrom(store, avail, 1)

NoFields == [f \in {} |-> ""]

\* a text that JSON.parse rejects
NotJson == [syntax |-> "invalid", type |-> "", fields |-> NoFields]

\* JSON.stringify of a settings object: the text of an object with its fields
JsonStringify(settings) == [syntax |-> "json", type |-> "object", fields |-> settings]

\* JSON texts of values that are not objects: null, and a number (which stands
\* for every value whose settings fields all read undefined)
JsonNull == [syntax |-> "json", type |-> "null", fields |-> NoFields]
JsonNumber == [syntax |-> "json", type |-> "number", fields |-> NoFields]

\* FineTuneMeStorage.export
StorageExport(store, avail) == JsonStringify(StorageGetAll(store, avail))

\* faulty variant: a value that is not an object is refused
StorageImport_Validating(store, avail, json) ==
    IF json.syntax # "json" \/ json.type # "object"
    THEN [ok |-> FALSE, store |-> store]
    ELSE [ok |-> TRUE, store |-> StorageSetAll(store, avail, json.fields)]

\* FineTuneMeStorage.import: JSON.parse throws on an invalid text, setAll throws
\* on null (reading a property of null); any other value has its settings
\* fields read (all undefined for a number) and import returns true
StorageImport(store, avail, json) ==
    IF json.syntax # "json" \/ json.type = "null"
    THEN [ok |-> FALSE, store |-> store]
    ELSE [ok |-> TRUE, store |-> StorageSetAll(store, avail, json.fields)]

\* values the dialog stores
StoValues ==
    [PROVIDER |-> {"groq"}, API_KEY |-> {"", "sk-legacy"}, GROQ_API_KEY |-> {"", "gsk-1"},
     OPENAI_API_KEY |-> {"sk-openai"}, ANTHROPIC_API_KEY |-> {"sk-ant"},
     MODEL |-> {Llama33}, ROLE |-> {"", "custom"}, FORMAT |-> {"alpaca"}]

\* texts given to import
ImportTexts ==
    {NotJson, JsonNull, JsonNumber,
     JsonStringify(NoFields),
     JsonStringify([apiKey |-> "sk-legacy"]),
     JsonStringify([provider |-> "openai", role |-> "teacher"]),
     JsonStringify(DEFAULT_SETTINGS)}

StoInit ==
    /\ stoAvail \in BOOLEAN
    /\ stoItems = EmptyStorage
    /\ stoLast = [op |-> "none", ok |-> TRUE, changed |-> FALSE]

\* the operation op took the items to store and returned ok
StoDone(op, store, ok) ==
    /\ stoItems' = store
    /\ stoLast' = [op |-> op, ok |-> ok,
                   changed |-> StorageGetAll(store, stoAvail)
                                  # StorageGetAll(stoItems, stoAvail)]
    /\ UNCHANGED stoAvail

StoSet(key, value) == StoDone("set", StorageSet(stoItems, stoAvail, key, value), TRUE)

\* handleReset
StoClear == StoDone("clear", StorageClear(stoItems, stoAvail), TRUE)

\* handleClearSecrets
StoClearSecrets == StoDone("clearSecrets", StorageClearSecrets(stoItems, stoAvail), TRUE)

StoImport(json) ==
    LET res == StorageImport(stoItems, stoAvail, json)
    IN  StoDone("import", res.store, res.ok)

\* import(export())
StoRestoreBackup ==
    LET res == StorageImport(stoItems, stoAvail, StorageExport(stoItems, stoAvail))
    IN  StoDone("restore", res.store, res.ok)

StoOthersIdle ==
    UNCHANGED <<uploadVars, pollVars, stepVars, genVars, jobsVars, batVars, smVars>>

StoNext ==
    \/ (\E key \in StorageKeyNames : \E value \in StoValues[key] : StoSet(key, value))
          /\ StoOthersIdle
    \/ StoClear /\ StoOthersIdle
    \/ StoClearSecrets /\ StoOthersIdle
    \/ (\E json \in ImportTexts : StoImport(json)) /\ StoOthersIdle
    \/ StoRestoreBackup /\ StoOthersIdle

(***************************************************************************)
(* SettingsModal: provider and hardware loading, Retry Connection          *)
(***************************************************************************)
\* async calls of the dialog that may wait for a response at the same time
MaxDialogCalls == 2

\* useState<HardwareStatus | null>(null); response.data of GET /system/health
NoHardware == "null"
HealthData == "health"

\* a call waiting for a response. kind: the function the user or an effect
\* invoked; pc: the request it waits for; offline: the backendOffline its
\* loadHardwareStatus closure holds (read only by kind "retry")
DialogCall(kind, pc, offline) == [kind |-> kind, pc |-> pc, offline |-> offline]

NoRetry == [phase |-> "none", afterOffline |-> FALSE, up |-> FALSE, fetched |-> FALSE]

\* if (backendOffline) { ...; return } at the head of loadHardwareStatus
SkipHealth(offline) == offline

\* loadHardwareStatus up to its await, run by a render whose backendOffline is
\* offline; sent: whether GET /system/health goes out
HardwareHead(offline) ==
    IF SkipHealth(offline)
    THEN [status |-> NoHardware, error |-> TRUE, loading |-> FALSE, sent |-> FALSE]
    ELSE [status |-> hardwareStatus, error |-> FALSE, loading |-> TRUE, sent |-> TRUE]

SmInit ==
    /\ isOpen = FALSE
    /\ activeTab = "general"
    /\ backendOffline = FALSE
    /\ hardwareStatus = NoHardware
    /\ hardwareError = FALSE
    /\ smLoading = FALSE
    /\ smLoadingProviders = TRUE
    /\ smProviders = "empty"
    /\ backendUp \in BOOLEAN
    /\ smCalls = <<>>
    /\ retryRun = NoRetry

\* the dialog is opened: the isOpen effect calls loadProviders(), and with the
\* hardware tab active the second effect calls loadHardwareStatus() of the
\* same render
OpenDialog ==
    /\ ~isOpen
    /\ isOpen' = TRUE
    /\ smLoadingProviders' = TRUE
    /\ backendOffline' = FALSE
    /\ IF activeTab = "hardware"
       THEN LET h == HardwareHead(backendOffline)
            IN  /\ Len(smCalls) + 2 <= MaxDialogCalls
                /\ hardwareStatus' = h.status
                /\ hardwareError' = h.error
                /\ smLoading' = h.loading
                /\ smCalls' = smCalls \o <<DialogCall("providers", "getProviders", FALSE)>>
                                \o (IF h.sent
                                    THEN <<DialogCall("hardware", "health", FALSE)>>
                                    ELSE <<>>)
       ELSE /\ Len(smCalls) + 1 <= MaxDialogCalls
            /\ smCalls' = Append(smCalls, DialogCall("providers", "getProviders", FALSE))
            /\ UNCHANGED <<hardwareStatus, hardwareError, smLoading>>
    /\ UNCHANGED <<activeTab, smProviders, backendUp, retryRun>>

\* the X button: onClose
CloseDialog ==
    /\ isOpen
    /\ isOpen' = FALSE
    /\ UNCHANGED <<activeTab, backendOffline, hardwareStatus, hardwareError, smLoading,
                   smLoadingProviders, smProviders, backendUp, smCalls, retryRun>>

\* a tab button: setActiveTab(tab); the hardware tab's effect calls
\* loadHardwareStatus() of the render that shows the tab
SelectTab(tab) ==
    /\ isOpen
    /\ tab # activeTab
    /\ activeTab' = tab
    /\ IF tab = "hardware"
       THEN LET h == HardwareHead(backendOffline)
            IN  /\ Len(smCalls) + 1 <= MaxDialogCalls
                /\ hardwareStatus' = h.status
                /\ hardwareError' = h.error
                /\ smLoading' = h.loading
                /\ smCalls' = IF h.sent
                              THEN Append(smCalls, DialogCall("hardware", "health", FALSE))
                              ELSE smCalls
       ELSE UNCHANGED <<hardwareStatus, hardwareError, smLoading, smCalls>>
    /\ UNCHANGED <<isOpen, backendOffline, smLoadingProviders, smProviders, backendUp,
                   retryRun>>

\* the Retry Connection / Retry button is rendered
RetryShown ==
    /\ isOpen
    /\ activeTab = "hardware"
    /\ ~smLoading
    /\ hardwareError \/ hardwareStatus = NoHardware

\* retryConnection up to the await inside loadProviders; the call keeps the
\* loadHardwareStatus of the render that drew the button
ClickRetry ==
    /\ RetryShown
    /\ retryRun.phase # "running"
    /\ Len(smCalls) + 1 <= MaxDialogCalls
    /\ backendOffline' = FALSE
    /\ smLoadingProviders' = TRUE
    /\ smCalls' = Append(smCalls, DialogCall("retry", "getProviders", backendOffline))
    /\ retryRun' = [phase |-> "running", afterOffline |-> backendOffline,
                    up |-> backendUp, fetched |-> FALSE]
    /\ UNCHANGED <<isOpen, activeTab, hardwareStatus, hardwareError, smLoading,
                   smProviders, backendUp>>

\* GET /providers of call i settles: try or catch branch of loadProviders and
\* its finally; a retryConnection goes on to its loadHardwareStatus()
ProvidersSettle(i) ==
    LET call == smCalls[i]
        h == HardwareHead(call.offline)
    IN  /\ call.pc = "getProviders"
        /\ smProviders' = IF backendUp THEN "backend" ELSE "cloud"
        /\ backendOffline' = ~backendUp
        /\ smLoadingProviders' = FALSE
        /\ IF call.kind = "retry"
           THEN /\ hardwareStatus' = h.status
                /\ hardwareError' = h.error
                /\ smLoading' = h.loading
                /\ smCalls' = IF h.sent
                              THEN [smCalls EXCEPT ![i] = DialogCall("retry", "health",
                                                                     call.offline)]
                              ELSE RemoveAt(smCalls, i)
                /\ retryRun' = [retryRun EXCEPT
                                   !.phase = IF h.sent THEN "running" ELSE "done",
                                   !.fetched = h.sent]
           ELSE /\ smCalls' = RemoveAt(smCalls, i)
                /\ UNCHANGED <<hardwareStatus, hardwareError, smLoading, retryRun>>
        /\ UNCHANGED <<isOpen, activeTab, backendUp>>

\* GET /system/health of call i settles: try or catch branch of
\* loadHardwareStatus and its finally
HealthSettle(i) ==
    LET call == smCalls[i]
    IN  /\ call.pc = "health"
        /\ hardwareStatus' = IF backendUp THEN HealthData ELSE NoHardware
        /\ hardwareError' = ~backendUp
        /\ smLoading' = FALSE
        /\ smCalls' = RemoveAt(smCalls, i)
        /\ retryRun' = IF call.kind = "retry"
                       THEN [retryRun EXCEPT !.phase = "done"]
                       ELSE retryRun
        /\ UNCHANGED <<isOpen, activeTab, backendOffline, smLoadingProviders, smProviders,
                       backendUp>>

\* the Refresh Status button: onClick={loadHardwareStatus}
RefreshStatus ==
    LET h == HardwareHead(backendOffline)
    IN  /\ isOpen
        /\ activeTab = "hardware"
        /\ ~smLoading /\ ~hardwareError /\ hardwareStatus # NoHardware
        /\ Len(smCalls) + 1 <= MaxDialogCalls
        /\ hardwareStatus' = h.status
        /\ hardwareError' = h.error
        /\ smLoading' = h.loading
        /\ smCalls' = IF h.sent
                      THEN Append(smCalls, DialogCall("hardware", "health", FALSE))
                      ELSE smCalls
        /\ UNCHANGED <<isOpen, activeTab, backendOffline, smLoadingProviders, smProviders,
                       backendUp, retryRun>>

\* the backend is started or stopped
BackendChanges ==
    /\ backendUp' = ~backendUp
    /\ retryRun' = IF retryRun.phase = "running"
                   THEN [retryRun EXCEPT !.up = FALSE]
                   ELSE retryRun
    /\ UNCHANGED <<isOpen, activeTab, backendOffline, hardwareStatus, hardwareError,
                   smLoading, smLoadingProviders, smProviders, smCalls>>

SmOthersIdle ==
    UNCHANGED <<uploadVars, pollVars, stepVars, genVars, jobsVars, batVars, stoVars>>

SmNext ==
    \/ OpenDialog /\ SmOthersIdle
    \/ CloseDialog /\ SmOthersIdle
    \/ (\E tab \in {"general", "secrets", "hardware"} : SelectTab(tab)) /\ SmOthersIdle
    \/ ClickRetry /\ SmOthersIdle
    \/ (\E i \in 1..Len(smCalls) : ProvidersSettle(i)) /\ SmOthersIdle
    \/ (\E i \in 1..Len(smCalls) : HealthSettle(i)) /\ SmOthersIdle
    \/ RefreshStatus /\ SmOthersIdle
    \/ BackendChanges /\ SmOthersIdle

(***************************************************************************)
(* Specifications                                                          *)
(***************************************************************************)
PollIdle ==
    /\ job = NewJob
    /\ workerPc = IdleWorker
    /\ project = NoProject
    /\ psLoading = TRUE
    /\ psError = ""
    /\ showConfetti = FALSE
    /\ datasetPreview = FALSE
    /\ requests = <<>>
    /\ downloads = 0
    /\ everCompleted = FALSE
    /\ onlyCompleted = TRUE

StepIdle == StepInit

GenIdle ==
    /\ genBackend = ""
    /\ genSelected = ""
    /\ genChunks = <<>>
    /\ genIndex = 0
    /\ genCalls = <<>>
    /\ genStatus = "idle"
    /\ genAttempts = 0
    /\ genPairs = <<>>
    /\ genError = ""

JobsIdle == JobsInit

\* the launcher is not running
BatIdle ==
    /\ batInput = [choice |-> "1", venv |-> TRUE, installExit |-> 0, gpuExit |-> 0,
                   nodeModules |-> TRUE, errorlevel |-> 0]
    /\ batPc = "off"
    /\ batErrorlevel = 0
    /\ batExpanded = 0
    /\ batVenv = TRUE
    /\ batMode = ""
    /\ batEvents = {}

\* the settings store is not used on its own
StoIdle ==
    /\ stoAvail = TRUE
    /\ stoItems = EmptyStorage
    /\ stoLast = [op |-> "none", ok |-> TRUE, changed |-> FALSE]

\* the settings dialog was never opened
SmIdle ==
    /\ isOpen = FALSE
    /\ activeTab = "general"
    /\ backendOffline = FALSE
    /\ hardwareStatus = NoHardware
    /\ hardwareError = FALSE
    /\ smLoading = FALSE
    /\ smLoadingProviders = TRUE
    /\ smProviders = "empty"
    /\ backendUp = TRUE
    /\ smCalls = <<>>
    /\ retryRun = NoRetry

RestIdle == JobsIdle /\ BatIdle /\ StoIdle /\ SmIdle

InitUpload == UploadInit /\ PollIdle /\ StepIdle /\ GenIdle /\ RestIdle

SpecUpload == InitUpload /\ [][UploadNext]_vars

\* provider loading with the controls that depend on the catalog; the file,
\* role, format and submission controls are left alone
LoadNext ==
    \/ (\E data \in BackendCatalogs : ProvidersLoaded(data)) /\ OthersIdleUpload
    \/ ProvidersFailed /\ OthersIdleUpload
    \/ RetryTimer /\ OthersIdleUpload
    \/ Reconnect /\ OthersIdleUpload
    \/ (\E p \in DOMAIN FALLBACK_PROVIDERS : SelectProvider(p)) /\ OthersIdleUpload
    \/ (\E i \in 1..MaxModelChoice :
            i <= Len(availableModels) /\ SelectModel(availableModels[i])) /\ OthersIdleUpload
    \/ (\E k \in UserKeys : EnterApiKey(k)) /\ OthersIdleUpload
    \/ ChangeApiKey /\ OthersIdleUpload
    \/ Reload /\ OthersIdleUpload

\* a GET /providers request settles (it resolves or rejects) and the retry
\* timer set by setTimeout fires
FairLoad ==
    /\ WF_vars(((\E data \in BackendCatalogs : ProvidersLoaded(data)) \/ ProvidersFailed)
               /\ OthersIdleUpload)
    /\ WF_vars(RetryTimer /\ OthersIdleUpload)

SpecLoadFair == InitUpload /\ [][LoadNext]_vars /\ FairLoad

InitPoll == UploadIdle /\ PollInit /\ StepIdle /\ GenIdle /\ RestIdle

SpecPoll == InitPoll /\ [][PollNext]_vars

\* setInterval keeps firing; a request may fail, but requests that keep being
\* made do not fail for ever: the backend answers one and the answer is delivered
FairPoll ==
    /\ WF_vars(IntervalTick /\ OthersIdlePoll)
    /\ SF_vars((\E i \in 1..Len(requests) : ServerAnswers(i)) /\ OthersIdlePoll)
    /\ SF_vars((\E i \in 1..Len(requests) : ResponseArrives(i)) /\ OthersIdlePoll)
    /\ WF_vars((\E i \in 1..Len(requests) : ResponseArrives(i) \/ RequestFails(i))
                  /\ OthersIdlePoll)

SpecPollFair == InitPoll /\ [][PollNext]_vars /\ FairPoll

InitStep == UploadIdle /\ PollIdle /\ StepInit /\ GenIdle /\ RestIdle

SpecStep == InitStep /\ [][StepNext]_vars

InitGen == UploadIdle /\ PollIdle /\ StepIdle /\ GenInit /\ RestIdle

SpecGen == InitGen /\ [][GenNext]_vars

InitJobs == UploadIdle /\ PollIdle /\ StepIdle /\ GenIdle /\ JobsInit /\ BatIdle /\ StoIdle /\ SmIdle

SpecJobs == InitJobs /\ [][JobsNext]_vars

InitLaunch == UploadIdle /\ PollIdle /\ StepIdle /\ GenIdle /\ JobsIdle /\ BatInit /\ StoIdle /\ SmIdle

SpecLaunch == InitLaunch /\ [][BatNext]_vars

InitStorage == UploadIdle /\ PollIdle /\ StepIdle /\ GenIdle /\ JobsIdle /\ BatIdle /\ StoInit /\ SmIdle

SpecStorage == InitStorage /\ [][StoNext]_vars

InitSettings ==
    UploadIdle /\ PollIdle /\ StepIdle /\ GenIdle /\ JobsIdle /\ BatIdle /\ StoIdle /\ SmInit

SpecSettings == InitSettings /\ [][SmNext]_vars

(***************************************************************************)
(* Claims about the upload form (checked under SpecUpload)                 *)
(***************************************************************************)
\* this step is handleSubmit passing its checks and calling createProject:
\* POST /projects goes out with the FormData of the state before the step
PostIssued == ~loading /\ loading'

\* the providers that need an API key, by the client's own provider table
ProviderRequiresKey(p) ==
    p \in DOMAIN FALLBACK_PROVIDERS /\ FALLBACK_PROVIDERS[p].requires_api_key

\* C1: the user's provider API key is never sent to the application's backend:
\* no POST /projects body built by handleSubmit contains an api_key field.
C1_KeyNeverPosted ==
    [][PostIssued => "api_key" \notin FormData.fields]_vars

\* C2: no POST /projects is issued for a provider that requires an API key while
\* the API key is empty, whatever the state of the provider catalog.
C2_NoPostWithoutRequiredKey ==
    [][PostIssued => ~(ProviderRequiresKey(provider) /\ apiKey = "")]_vars

\* C3: no POST /projects is issued with role "custom" and no custom_prompt field.
C3_CustomRoleHasPrompt ==
    [][PostIssued => ~(role = "custom" /\ "custom_prompt" \notin FormData.fields)]_vars

\* C4: a file of more than 100*1024*1024 bytes is rejected at selection (with the
\* size error when its extension is supported), never becomes the selected file
\* and so is never posted; a file of exactly 100*1024*1024 bytes with a
\* supported extension becomes the selected file.
C4_SizeBoundary ==
    /\ [](file.size <= MaxFileBytes)
    /\ [][\A f \in Files :
            handleFileChange(f) =>
                /\ f.size > MaxFileBytes =>
                      /\ file' = file
                      /\ SupportedExt(f) => error' = ErrTooLarge
                /\ (f.size = MaxFileBytes /\ SupportedExt(f)) =>
                      (file' = f /\ error' = "")]_vars

\* C4 witness: a file of exactly the limit is the selected file and a later
\* selection of an oversize file has just been refused with the size error
C4_Witness ==
    /\ file # NoFile
    /\ file.size = MaxFileBytes
    /\ error = ErrTooLarge

\* C5: a file with the legacy extension .doc or .ppt never becomes the selected
\* file (and so is never submitted).
C5_LegacyNeverSelected ==
    file # NoFile => FileExt(file) \notin {".doc", ".ppt"}

(***************************************************************************)
(* Claims about the polling client and the job record (under SpecPoll)     *)
(***************************************************************************)
\* status may stay, or leave "processing" for a terminal status
StatusStep(old, new) ==
    new = old \/ (old = "processing" /\ new \in {"completed", "failed"})

\* C6: over the snapshots the polling client records in project, progress never
\* decreases and status only goes processing->completed or processing->failed,
\* for every interleaving of the responses in flight.
C6_RecordedSnapshotsMonotone ==
    [][(project # NoProject /\ project' # project) =>
          /\ project'.progress >= project.progress
          /\ StatusStep(project.status, project'.status)]_vars

\* C7: the artifact is requested (loadDatasetPreview) only in a step that records
\* a completed snapshot, only after a completed snapshot was recorded, and the
\* download link is rendered only while the recorded status is completed.
C7_ArtifactOnlyWhenCompleted ==
    /\ [](downloads > 0 => everCompleted)
    /\ [](DownloadLinked => project.status = "completed")
    /\ [][downloads' # downloads => project'.status = "completed"]_vars

\* C7 witness: the preview was requested and the download link is shown
C7_Witness ==
    /\ downloads > 0
    /\ DownloadLinked

\* a snapshot is whole: completed only with progress 100, and an error message
\* only with status failed
WholeSnapshot(s) ==
    /\ s.status = "completed" => s.progress = 100
    /\ s.error_message # "" => s.status = "failed"

TableStage(p) ==
    IF p = 100 THEN 6
    ELSE IF p >= 90 THEN 5
    ELSE IF p >= 70 THEN 4
    ELSE IF p >= 40 THEN 3
    ELSE IF p >= 20 THEN 2
    ELSE 1

\* C8: for every progress p in 0..100 getCurrentStep returns the stage whose
\* threshold is the greatest one <= p (0 Initializing, 20 Ingesting, 40..69
\* Generating, 70 Formatting, 90 Finalizing, 100 Complete); the stage index never
\* decreases when p grows, and Complete is shown only at p = 100.
C8_StageOfProgress ==
    /\ [](/\ currentStep.index = TableStage(stepProgress)
          /\ currentStep.threshold <= stepProgress
          /\ \A i \in 1..Len(PROCESSING_STEPS) :
                PROCESSING_STEPS[i].threshold <= stepProgress
                    => PROCESSING_STEPS[i].threshold <= currentStep.threshold
          /\ (currentStep.label = "Complete") <=> (stepProgress = 100))
    /\ [][stepProgress' >= stepProgress => currentStep'.index >= currentStep.index]_vars

\* C8 witness: the last progress value of the Generating stage is rendered
C8_Witness ==
    /\ stepProgress = 69
    /\ currentStep.label = "Generating Conversations"

(***************************************************************************)
(* Claim about vision routing (under SpecGen)                              *)
(***************************************************************************)
\* C9: every generation call on a chunk with an image unit uses a model of the
\* backend's vision-capable subset whatever model was selected (on Groq,
\* llama-4-scout); with no vision-capable model the call fails with
\* VisionUnsupported; the image is never sent to a text-only model nor dropped.
C9_VisionRouting ==
    \A k \in 1..Len(genCalls) :
        LET call == genCalls[k]
            vision == GenBackends[genBackend].vision
        IN  HasImage(call.chunk) =>
                IF Len(vision) = 0
                THEN /\ call.outcome = "VisionUnsupported"
                     /\ call.imagesSent = 0
                     /\ genStatus = "failed"
                ELSE /\ call.outcome = "ok"
                     /\ Includes(vision, call.effective)
                     /\ call.imagesSent = ImageCount(call.chunk)
                     /\ genBackend = "groq" => call.effective = Scout

\* C9 witness: on Groq a text-only model was selected and an image chunk was sent
C9_Witness ==
    /\ genBackend = "groq"
    /\ genSelected = Llama33
    /\ \E k \in 1..Len(genCalls) :
          HasImage(genCalls[k].chunk) /\ genCalls[k].effective = Scout

(***************************************************************************)
(* Claims about the generation job (under SpecGen)                         *)
(***************************************************************************)
\* the calls made on chunk number n, in order
CallsOn(n) == SelectSeq(genCalls, LAMBDA c : c.index = n)

\* C11: a provider call failing with a rate-limit or network error is retried,
\* at most 3 attempts in all; an authentication or validation failure is never
\* retried: it ends the call at once (after one attempt when it comes first).
C11_RetryPolicy ==
    \A n \in 1..Len(genChunks) :
        LET calls == CallsOn(n)
        IN  /\ Len(calls) <= MaxAttempts
            /\ \A k \in 1..Len(calls) :
                  /\ calls[k].attempt = k
                  /\ k < Len(calls) =>
                        calls[k].result \in {"ProviderRateLimited", "ProviderNetworkError"}
                  /\ (k = Len(calls) /\ k < MaxAttempts
                        /\ calls[k].result \in {"ProviderRateLimited", "ProviderNetworkError"})
                        => (genStatus = "processing" /\ genAttempts = k /\ genIndex = n - 1)
                  /\ calls[k].result \in {"ProviderAuthError", "ProviderModelUnavailable",
                                          "VisionUnsupported"}
                        => (genStatus = "failed" /\ genError = calls[k].result)

\* C11 witness: one chunk needed all three attempts, a later one failed on its
\* first attempt with an authentication error
C11_Witness ==
    /\ genStatus = "failed"
    /\ genError = "ProviderAuthError"
    /\ genCalls[Len(genCalls)].attempt = 1
    /\ \E k \in 1..Len(genCalls) : genCalls[k].attempt = MaxAttempts

\* the last call on chunk n used up the attempts, or failed without retry
FailedForGood(n) ==
    LET calls == CallsOn(n)
    IN  /\ Len(calls) > 0
        /\ calls[Len(calls)].result # "ok"
        /\ (Len(calls) = MaxAttempts
               \/ calls[Len(calls)].result
                    \notin {"ProviderRateLimited", "ProviderNetworkError"})

\* C12: when a chunk's call fails for good the job is failed and never completed;
\* a completed job holds the pairs of every chunk; chunks are called in source
\* order and their pairs appended in chunk order.
C12_FailedChunkFailsJob ==
    /\ [](\A n \in 1..Len(genChunks) : FailedForGood(n) => genStatus = "failed")
    /\ [](genStatus = "completed" => Len(genPairs) = Len(genChunks))
    /\ [](\A k \in 1..Len(genPairs) : genPairs[k] = k)
    /\ [](\A k \in 1..Len(genCalls) - 1 : genCalls[k].index <= genCalls[k + 1].index)
    /\ [][genStatus = "failed" => genStatus' = "failed"]_vars

\* C12 witness: the first chunk's pairs are appended, the second chunk used up
\* its attempts
C12_Witness ==
    /\ genStatus = "failed"
    /\ genPairs = <<1>>
    /\ Len(CallsOn(2)) = MaxAttempts

(***************************************************************************)
(* Claim about the workers (under SpecJobs)                                *)
(***************************************************************************)
\* C13: at every moment at most one worker operates on a given job id, and only
\* that worker ever writes the job's record; two runs against one job id at the
\* same time are never reached.
C13_SingleWriter ==
    /\ \A r1, r2 \in jobRuns : r1.job = r2.job => r1 = r2
    /\ \A j \in DOMAIN jobStore :
          /\ Cardinality(jobStore[j].writers) <= 1
          /\ \A r \in jobRuns : r.job = j => jobStore[j].writers \subseteq {r.worker}

\* C13 witness: two jobs are being run at once, each written by its own worker
C13_Witness ==
    /\ Cardinality(jobRuns) >= 2
    /\ \A r \in jobRuns : jobStore[r.job].writers = {r.worker}

(***************************************************************************)
(* Further claims about the status poller (under SpecPoll)                 *)
(***************************************************************************)
\* C14: whenever the failed view is displayed, the message shown is the
\* error_message recorded for the job, never the generic failure text.
C14_FailedShowsRecordedMessage ==
    View = "failed" => (FailedMessage = JobErrorMessage /\ FailedMessage # GenericFailure)

(***************************************************************************)
(* Claim about the launcher (under SpecLaunch)                             *)
(***************************************************************************)
\* C15: on a first run (no .venv), when scripts\install.bat exits with a
\* non-zero code the launcher reports the installation failure and exits; it
\* neither activates the environment nor runs npm run dev.
C15_FailedInstallStopsLaunch ==
    (~batInput.venv /\ batInput.installExit # 0 /\ "install_ran" \in batEvents)
        => /\ "activate_called" \notin batEvents
           /\ "npm_run_dev" \notin batEvents
           /\ batPc # "install_check" => "installation_failed_reported" \in batEvents

(***************************************************************************)
(* Claims about the settings store (under SpecStorage)                     *)
(***************************************************************************)
\* the storage item of a settings field
ItemOf(n) == STORAGE_KEYS[SettingsFields[n].key]

\* C16: with localStorage available, after clearSecrets getAll() returns '' for
\* apiKey, groqApiKey, openaiApiKey and anthropicApiKey, and provider, model,
\* role and format are as before.
C16_ClearSecretsOnlySecrets ==
    [][(StoClearSecrets /\ stoAvail) =>
          LET before == StorageGetAll(stoItems, stoAvail)
              after == StorageGetAll(stoItems', stoAvail')
          IN  /\ after.apiKey = "" /\ after.groqApiKey = ""
              /\ after.openaiApiKey = "" /\ after.anthropicApiKey = ""
              /\ after.provider = before.provider /\ after.model = before.model
              /\ after.role = before.role /\ after.format = before.format]_vars

\* C16 witness: clearSecrets removed a stored key and a stored provider is kept
C16_Witness ==
    /\ stoLast.op = "clearSecrets"
    /\ stoLast.changed
    /\ stoAvail
    /\ stoItems[STORAGE_KEYS.PROVIDER] = "groq"

\* C17: after clear(), and whenever a key was never stored or localStorage is
\* unavailable, get(key) returns the DEFAULT_SETTINGS value of the key's
\* settings field, for each of the eight keys; getAll() is then DEFAULT_SETTINGS.
C17_ClearRestoresDefaults ==
    /\ \A n \in 1..Len(SettingsFields) :
          (~stoAvail \/ stoItems[ItemOf(n)] = NullItem)
              => StorageGet(stoItems, stoAvail, SettingsFields[n].key)
                    = DEFAULT_SETTINGS[SettingsFields[n].field]
    /\ (stoLast.op = "clear" \/ ~stoAvail)
          => StorageGetAll(stoItems, stoAvail) = DEFAULT_SETTINGS

\* C17 witness: clear() has reset settings that differed from the defaults
C17_Witness ==
    /\ stoLast.op = "clear"
    /\ stoLast.changed
    /\ stoAvail

\* C18: import(export()) returns true and leaves getAll() unchanged; import of a
\* text that is not valid settings JSON returns false and changes no stored
\* value; import of a partial settings object changes only the fields it holds.
C18_BackupRestoreRoundTrip ==
    [][/\ StoRestoreBackup =>
             /\ stoLast'.ok
             /\ StorageGetAll(stoItems', stoAvail') = StorageGetAll(stoItems, stoAvail)
       /\ \A json \in ImportTexts : StoImport(json) =>
             /\ (json.syntax # "json" \/ json.type # "object")
                   => (~stoLast'.ok /\ stoItems' = stoItems)
             /\ json.type = "object" =>
                   \A n \in 1..Len(SettingsFields) :
                       SettingsFields[n].field \notin DOMAIN json.fields
                           => stoItems'[ItemOf(n)] = stoItems[ItemOf(n)]]_vars

\* C18 as the code has it: import(export()) returns true and leaves getAll()
\* unchanged; import returns false, changing nothing, exactly when the text is
\* not JSON or is JSON null, and true for every other JSON value; the stored
\* items of fields the value does not hold are never changed.
C18_ImportContract ==
    [][/\ StoRestoreBackup =>
             /\ stoLast'.ok
             /\ StorageGetAll(stoItems', stoAvail') = StorageGetAll(stoItems, stoAvail)
       /\ \A json \in ImportTexts : StoImport(json) =>
             /\ stoLast'.ok <=> (json.syntax = "json" /\ json.type # "null")
             /\ ~stoLast'.ok => stoItems' = stoItems
             /\ \A n \in 1..Len(SettingsFields) :
                   SettingsFields[n].field \notin DOMAIN json.fields
                       => stoItems'[ItemOf(n)] = stoItems[ItemOf(n)]]_vars

\* C18 witness: a backup was restored over a store holding only the legacy key,
\* which the restore also wrote to the Groq key
C18_Witness ==
    /\ stoLast.op = "restore"
    /\ stoLast.ok
    /\ stoItems[STORAGE_KEYS.API_KEY] = "sk-legacy"
    /\ stoItems[STORAGE_KEYS.GROQ_API_KEY] = "sk-legacy"

(***************************************************************************)
(* Claims about the end of polling (C19 under SpecPollFair, C20 under      *)
(* SpecPoll)                                                               *)
(***************************************************************************)
Terminal(status) == status \in {"completed", "failed"}

C20_PreviewLoadedOnce == onlyCompleted => downloads <= 1

(***************************************************************************)
(* Provider loading in the upload form                                     *)
(***************************************************************************)
\* setProviders(FALLBACK_PROVIDERS) takes effect in this step
FallbackInstalled == providers # FALLBACK_PROVIDERS /\ providers' = FALLBACK_PROVIDERS

\* the page is loaded again and again, so that no loadProviders call is left
\* to run to its end
ReloadedForever == []<><<Reload /\ OthersIdleUpload>>_vars

\* C21: one call loadProviders(0) issues at most two getProviders requests;
\* after the first failure no error state is set and one retry is scheduled
\* (the call still counts as loading, nothing of the form has changed); the
\* offline flag is set, and the fallback catalog installed, only by the failure
\* of the second request; and unless the page keeps being reloaded, a call that
\* is loading reaches loadingProviders = false.
C21_RetryOnceThenFallback ==
    /\ [](lpRequests <= 2)
    /\ [](lpPc = "timer" =>
             /\ lpRequests = 1
             /\ ~backendError
             /\ loadingProviders)
    /\ [](backendError =>
             /\ lpRequests = 2
             /\ lpPc = "done"
             /\ providers = FALLBACK_PROVIDERS
             /\ ~loadingProviders)
    /\ [][(lpPc = "fetching" /\ lpPc' = "timer") =>
             /\ lpRetry = 0
             /\ UNCHANGED <<provider, providers, apiKey, model, availableModels,
                            localStorage, backendError, loadingProviders, error>>]_vars
    /\ [][(FallbackInstalled \/ (~backendError /\ backendError')) =>
             /\ lpPc = "fetching" /\ lpRetry = 1 /\ lpRequests = 2
             /\ lpPc' = "done" /\ backendError']_vars
    /\ (ReloadedForever \/ (loadingProviders ~> ~loadingProviders))

\* C21 witness: the second request of a call has failed; the form shows the
\* offline flag over the fallback catalog and is no longer loading
C21_Witness ==
    /\ lpRequests = 2
    /\ lpPc = "done"
    /\ backendError
    /\ providers = FALLBACK_PROVIDERS
    /\ ~loadingProviders

\* a step in which GET /providers was answered: the try branch of loadProviders
LoadSucceeded == lpPc = "fetching" /\ lpPc' = "done" /\ ~backendError'

\* a step in which the second request failed: the catch branch past the retry
LoadFellBack == lpPc = "fetching" /\ lpPc' = "done" /\ backendError'

\* the four providers loadProviders looks for
KnownProviders == {"ollama", "groq", "openai", "anthropic"}

\* C22: on a successful provider load the default provider is Ollama if the
\* catalog marks it available, the saved provider only otherwise (if it is
\* available), and in any case a provider the catalog marks available when at
\* least one of ollama, groq, openai, anthropic is.
C22_DefaultPrefersOllama ==
    [][LoadSucceeded =>
         LET data == providers'
             savedProvider == StorageGet(localStorage, storageAvailable, "PROVIDER")
         IN  /\ AvailableIn(data, "ollama") => provider' = "ollama"
             /\ (~AvailableIn(data, "ollama") /\ savedProvider # ""
                    /\ AvailableIn(data, savedProvider)) => provider' = savedProvider
             /\ (\E p \in KnownProviders : AvailableIn(data, p))
                    => AvailableIn(data, provider')]_vars

\* C23: when both provider-load attempts have failed, the selected provider
\* becomes the saved provider if the user saved one that is in the fallback
\* catalog, otherwise Groq; with nothing ever saved by the user it is Groq, a
\* provider the fallback catalog marks available.
C23_FallbackSelectsGroq ==
    [][LoadFellBack =>
         LET savedProvider == StorageGet(localStorage, storageAvailable, "PROVIDER")
         IN  /\ provider' = IF userPicked /\ savedProvider # ""
                                /\ savedProvider \in DOMAIN FALLBACK_PROVIDERS
                             THEN savedProvider ELSE "groq"
             /\ ~userPicked =>
                    provider' = "groq" /\ AvailableIn(providers', provider')]_vars

(***************************************************************************)
(* Retry Connection in the settings dialog                                 *)
(***************************************************************************)
\* the step in which a retryConnection invocation returns
RetryEnds == retryRun.phase = "running" /\ retryRun'.phase = "done"

\* C24: a retryConnection invocation that was started after the dialog had
\* detected the backend as offline, and during which the backend was reachable
\* throughout, has fetched /system/health when it returns and leaves
\* hardwareStatus set and hardwareError false.
C24_RetryReconnects ==
    [][(RetryEnds /\ retryRun'.afterOffline /\ retryRun'.up) =>
          /\ retryRun'.fetched
          /\ hardwareStatus' = HealthData
          /\ ~hardwareError']_vars

(***************************************************************************)
(* The file held by the upload form                                        *)
(***************************************************************************)
\* a file handleFileChange accepts: extension in the supported list, size of
\* at most 100MB
ValidFile(f) == FileExt(f) \in SUPPORTED_FILE_TYPES /\ f.size <= MaxFileBytes

\* a step in which a selection was refused with one of the two messages
SelectionRejected == error' # error /\ error' \in {ErrUnsupported, ErrTooLarge}

\* C25: the file held by the upload form is null or valid in every reachable
\* state; a refused selection leaves the file held before unchanged; and the
\* file of every POST /projects is a valid file.
C25_HeldFileValid ==
    /\ [](file = NoFile \/ ValidFile(file))
    /\ [][SelectionRejected => file' = file]_vars
    /\ [][PostIssued => (file # NoFile /\ ValidFile(file) /\ FormData.file = file)]_vars

\* C25 witness: a selection was refused as too large while a valid file was
\* held, and the valid file is still the one held
C25_Witness ==
    /\ error = ErrTooLarge
    /\ file # NoFile
    /\ ValidFile(file)

(***************************************************************************)
(* Polling through failed status requests                                  *)
(***************************************************************************)
\* a step in which a status request failed: the catch branch of fetchProject
StatusRequestFailed == Len(requests') = Len(requests) - 1 /\ psError' = ErrFetch

\* C26: a status request that fails after a snapshot was recorded leaves the
\* snapshot and the view as they were and does not stop polling (the interval
\* goes on fetching while the recorded status is not terminal); and once the
\* job has reached completed or failed, with status requests that keep being
\* made eventually succeeding, the client records that terminal status.
C26_PollingConverges ==
    /\ [][(StatusRequestFailed /\ project # NoProject) =>
             /\ project' = project
             /\ View' = View
             /\ (~Terminal(project.status) => (ENABLED IntervalTick)')]_vars
    /\ (Terminal(job.status) ~> (project.status = job.status))

\* C26 witness: after a snapshot was recorded a status request has failed, the
\* job has meanwhile ended, and a further request is on its way
C26_Witness ==
    /\ psError = ErrFetch
    /\ project.status = "processing"
    /\ Terminal(job.status)
    /\ requests # <<>>

====
